---- MODULE Spec2Model ----
\* Phaser.Animation (wip/TS Source/animation/Animation.ts): the playback state
\* machine of one Animation instance, driven by an external clock
\* (game.time.now), a read-only frame table (FrameData) and a parent sprite that
\* owns a texture size and three signals (onAnimationStart, onAnimationLoop,
\* onAnimationComplete).
EXTENDS Integers, Sequences, FiniteSets, TLC

\* ---------------------------------------------------------------- bounds
MaxTime == 4        \* the clock runs over 0..MaxTime
MaxLen == 3         \* frame sequences have 1..MaxLen entries
MaxKey == 1         \* the frame table holds the keys 0..MaxKey

\* ------------------------------------------------------- values and inputs
\* null (a released reference, an absent argument, a failed lookup)
NULL == [null |-> TRUE]

\* a number that was never assigned (the two timestamps before the first
\* play/restart) or an array read outside its bounds
Undefined == -1

\* frame rates (frames per second) the callers pass; each divides 1000, so the
\* floating point quotient 1000 / rate is the integer quotient
FrameRates == {500, 1000}

\* optional arguments of play(): null, or a given value
FrameRateArgs == {NULL} \cup {[value |-> r] : r \in FrameRates}
LoopArgs == {NULL} \cup {[value |-> b] : b \in BOOLEAN}

\* the keys the frame table knows
FrameKeys == 0 .. MaxKey

\* values handed to the frame setter: every known key and one unknown key
SeekValues == 0 .. (MaxKey + 1)

\* the frame arrays animations are constructed with, one of each length: the
\* keys in descending order, so that no entry equals its own position and,
\* from length 2 on, one entry (MaxKey + 1) is missing from the frame table
FrameSeqs == { [i \in 1 .. n |-> (n - i + 1) % (MaxKey + 2)] : n \in 1 .. MaxLen }

\* texture size of the parent sprite before the animation touches it
InitialTextureSize == 0

VARIABLES
    game,               \* this.game: the reference to the game (clock), or NULL
    _parent,            \* this._parent: the reference to the sprite, or NULL
    _frames,            \* this._frames: the reference to the frame array, or NULL
    _frameData,         \* this._frameData: the reference to the frame table, or NULL
    frames,             \* the frame array itself (the constructor's argument)
    delay,              \* this.delay: ms between frames
    looped,             \* this.looped
    isFinished,         \* this.isFinished
    isPlaying,          \* this.isPlaying
    _frameIndex,        \* this._frameIndex (0-based)
    currentFrame,       \* this.currentFrame: a Frame or NULL
    _timeLastFrame,     \* this._timeLastFrame
    _timeNextFrame,     \* this._timeNextFrame
    now,                \* game.time.now, the external clock
    textureWidth,       \* parent.texture.width
    textureHeight,      \* parent.texture.height
    call,               \* history: the last call made on the instance
    outcome,            \* history: what the last call did ("void", "self", "true", "false", "threw")
    dispatched,         \* history: the signals the last call dispatched, in order
    ctorDelay,          \* history: this.delay as the constructor set it
    ctorLooped,         \* history: this.looped as the constructor set it
    startedAt,          \* history: the clock at the play/restart that no stop, setter, destroy or advance has followed yet, else Undefined
    advances,           \* history: updates that returned true since the last play/restart, Undefined once stop, the setter or destroy intervened
    lastStartOrAdvance, \* history: the clock at the last play/restart that ran through or update that returned true, else Undefined
    armed,              \* history: a play/restart has run through since construction or since the last onAnimationComplete
    overdue             \* history: how long past _timeNextFrame the clock was at the last update that returned true; 0 once another call changed the instance

vars == << game, _parent, _frames, _frameData, frames, delay, looped, isFinished,
           isPlaying, _frameIndex, currentFrame, _timeLastFrame, _timeNextFrame,
           now, textureWidth, textureHeight, call, outcome, dispatched,
           ctorDelay, ctorLooped, startedAt, advances, lastStartOrAdvance, armed, overdue >>

\* the fields of the instance and of its parent's texture (no history, no clock)
fields == << game, _parent, _frames, _frameData, delay, looped, isFinished,
             isPlaying, _frameIndex, currentFrame, _timeLastFrame,
             _timeNextFrame, textureWidth, textureHeight >>

\* ------------------------------------------------------------- helpers
\* FrameData.getFrame(key): the Frame stored under key, or null
GetFrame(key) ==
    IF key \in FrameKeys
    THEN [index |-> key, width |-> 10 + key, height |-> 20 + key]
    ELSE NULL

\* this._frames[i]: the array read, undefined outside the array
FrameAt(i) ==
    IF i >= 0 /\ i < Len(frames) THEN frames[i + 1] ELSE Undefined

\* 1000 / frameRate
DelayOf(frameRate) == 1000 \div frameRate

\* ------------------------------------------------------------- construction
Init ==
    /\ frames \in FrameSeqs
    /\ \E rate \in FrameRates :
         /\ delay = DelayOf(rate)
         /\ ctorDelay = DelayOf(rate)
    /\ looped \in BOOLEAN
    /\ ctorLooped = looped
    /\ game = [ref |-> "game"]
    /\ _parent = [ref |-> "parent"]
    /\ _frames = [ref |-> "frames"]
    /\ _frameData = [ref |-> "frameData"]
    /\ isFinished = FALSE
    /\ isPlaying = FALSE
    /\ _frameIndex = 0
    /\ currentFrame = GetFrame(frames[1])
    /\ _timeLastFrame = Undefined
    /\ _timeNextFrame = Undefined
    /\ now = 0
    /\ textureWidth = InitialTextureSize
    /\ textureHeight = InitialTextureSize
    /\ call = "constructor"
    /\ outcome = "void"
    /\ dispatched = << >>
    /\ startedAt = Undefined
    /\ advances = Undefined
    /\ lastStartOrAdvance = Undefined
    /\ armed = FALSE
    /\ overdue = 0

\* ------------------------------------------------------------- the clock
Tick ==
    /\ now < MaxTime
    /\ now' = now + 1
    /\ UNCHANGED << fields, frames, call, outcome, dispatched, ctorDelay,
                    ctorLooped, startedAt, advances, lastStartOrAdvance, armed, overdue >>

\* ------------------------------------------------------------- play
\* play() that leaves the cursor where it was
PlayWithoutRewind(frameRate, loop) ==
    /\ call' = "play"
    /\ delay' = IF frameRate # NULL THEN DelayOf(frameRate.value) ELSE delay
    /\ looped' = IF loop # NULL THEN loop.value ELSE looped
    /\ isPlaying' = TRUE
    /\ isFinished' = FALSE
    /\ IF game = NULL
       THEN \* this.game.time throws a TypeError; the assignments above stay
            /\ outcome' = "threw"
            /\ dispatched' = << >>
            /\ startedAt' = Undefined
            /\ advances' = Undefined
            /\ overdue' = 0
            /\ UNCHANGED << lastStartOrAdvance, armed >>
            /\ UNCHANGED << _timeLastFrame, _timeNextFrame, _frameIndex,
                            currentFrame >>
       ELSE /\ _timeLastFrame' = now
            /\ _timeNextFrame' = now + delay'
            /\ _frameIndex' = _frameIndex
            /\ currentFrame' = GetFrame(FrameAt(_frameIndex))
            /\ dispatched' = << "onAnimationStart" >>
            /\ outcome' = "self"
            /\ startedAt' = now
            /\ advances' = 0
            /\ lastStartOrAdvance' = now
            /\ armed' = TRUE
            /\ overdue' = 0
    /\ UNCHANGED << game, _parent, _frames, _frameData, frames, now,
                    textureWidth, textureHeight, ctorDelay, ctorLooped >>

\* play(frameRate, loop)
Play(frameRate, loop) ==
    /\ call' = "play"
    /\ delay' = IF frameRate # NULL THEN DelayOf(frameRate.value) ELSE delay
    /\ looped' = IF loop # NULL THEN loop.value ELSE looped
    /\ isPlaying' = TRUE
    /\ isFinished' = FALSE
    /\ IF game = NULL
       THEN \* this.game.time throws a TypeError; the assignments above stay
            /\ outcome' = "threw"
            /\ dispatched' = << >>
            /\ startedAt' = Undefined
            /\ advances' = Undefined
            /\ overdue' = 0
            /\ UNCHANGED << lastStartOrAdvance, armed >>
            /\ UNCHANGED << _timeLastFrame, _timeNextFrame, _frameIndex,
                            currentFrame >>
       ELSE /\ _timeLastFrame' = now
            /\ _timeNextFrame' = now + delay'
            /\ _frameIndex' = 0
            /\ currentFrame' = GetFrame(FrameAt(0))
            /\ dispatched' = << "onAnimationStart" >>
            /\ outcome' = "self"
            /\ startedAt' = now
            /\ advances' = 0
            /\ lastStartOrAdvance' = now
            /\ armed' = TRUE
            /\ overdue' = 0
    /\ UNCHANGED << game, _parent, _frames, _frameData, frames, now,
                    textureWidth, textureHeight, ctorDelay, ctorLooped >>

\* ------------------------------------------------------------- restart
\* restart() that leaves isFinished as it was
RestartKeepsFinished ==
    /\ call' = "restart"
    /\ isPlaying' = TRUE
    /\ isFinished' = isFinished
    /\ IF game = NULL
       THEN \* this.game.time throws a TypeError; the assignments above stay
            /\ outcome' = "threw"
            /\ startedAt' = Undefined
            /\ advances' = Undefined
            /\ overdue' = 0
            /\ UNCHANGED << lastStartOrAdvance, armed >>
            /\ UNCHANGED << _timeLastFrame, _timeNextFrame, _frameIndex,
                            currentFrame >>
       ELSE /\ _timeLastFrame' = now
            /\ _timeNextFrame' = now + delay
            /\ _frameIndex' = 0
            /\ currentFrame' = GetFrame(FrameAt(0))
            /\ outcome' = "void"
            /\ startedAt' = now
            /\ advances' = 0
            /\ lastStartOrAdvance' = now
            /\ armed' = TRUE
            /\ overdue' = 0
    /\ dispatched' = << >>
    /\ UNCHANGED << game, _parent, _frames, _frameData, frames, delay, looped,
                    now, textureWidth, textureHeight, ctorDelay, ctorLooped >>

\* restart()
Restart ==
    /\ call' = "restart"
    /\ isPlaying' = TRUE
    /\ isFinished' = FALSE
    /\ IF game = NULL
       THEN \* this.game.time throws a TypeError; the assignments above stay
            /\ outcome' = "threw"
            /\ startedAt' = Undefined
            /\ advances' = Undefined
            /\ overdue' = 0
            /\ UNCHANGED << lastStartOrAdvance, armed >>
            /\ UNCHANGED << _timeLastFrame, _timeNextFrame, _frameIndex,
                            currentFrame >>
       ELSE /\ _timeLastFrame' = now
            /\ _timeNextFrame' = now + delay
            /\ _frameIndex' = 0
            /\ currentFrame' = GetFrame(FrameAt(0))
            /\ outcome' = "void"
            /\ startedAt' = now
            /\ advances' = 0
            /\ lastStartOrAdvance' = now
            /\ armed' = TRUE
            /\ overdue' = 0
    /\ dispatched' = << >>
    /\ UNCHANGED << game, _parent, _frames, _frameData, frames, delay, looped,
                    now, textureWidth, textureHeight, ctorDelay, ctorLooped >>

\* ------------------------------------------------------------- stop
\* stop() that flips isFinished
StopTogglesFinished ==
    /\ call' = "stop"
    /\ isPlaying' = FALSE
    /\ isFinished' = ~isFinished
    /\ outcome' = "void"
    /\ dispatched' = << >>
    /\ startedAt' = Undefined
    /\ advances' = Undefined
    /\ overdue' = 0
    /\ UNCHANGED << lastStartOrAdvance, armed >>
    /\ UNCHANGED << game, _parent, _frames, _frameData, frames, delay, looped,
                    _frameIndex, currentFrame, _timeLastFrame, _timeNextFrame,
                    now, textureWidth, textureHeight, ctorDelay, ctorLooped >>

\* stop() that leaves isPlaying as it was
StopLeavesPlaying ==
    /\ call' = "stop"
    /\ isPlaying' = isPlaying
    /\ isFinished' = TRUE
    /\ outcome' = "void"
    /\ dispatched' = << >>
    /\ startedAt' = Undefined
    /\ advances' = Undefined
    /\ overdue' = 0
    /\ UNCHANGED << lastStartOrAdvance, armed >>
    /\ UNCHANGED << game, _parent, _frames, _frameData, frames, delay, looped,
                    _frameIndex, currentFrame, _timeLastFrame, _timeNextFrame,
                    now, textureWidth, textureHeight, ctorDelay, ctorLooped >>

\* stop()
Stop ==
    /\ call' = "stop"
    /\ isPlaying' = FALSE
    /\ isFinished' = TRUE
    /\ outcome' = "void"
    /\ dispatched' = << >>
    /\ startedAt' = Undefined
    /\ advances' = Undefined
    /\ overdue' = 0
    /\ UNCHANGED << lastStartOrAdvance, armed >>
    /\ UNCHANGED << game, _parent, _frames, _frameData, frames, delay, looped,
                    _frameIndex, currentFrame, _timeLastFrame, _timeNextFrame,
                    now, textureWidth, textureHeight, ctorDelay, ctorLooped >>

\* ------------------------------------------------------------- update
\* the guard with > for >=
DueLate == now > _timeNextFrame

\* the guard of an advance, comparing the clock with the last frame time
DueAtOnce == now >= _timeLastFrame

\* the guard of an advance: the clock has reached the next frame time
Due == now >= _timeNextFrame

\* the index moved on by the number of frame intervals that have elapsed
IncrementedCatchingUp == _frameIndex + 1 + ((now - _timeNextFrame) \div delay)

\* this._frameIndex++
Incremented == _frameIndex + 1

\* the wrap taken one position early
WrapsAroundEarly == _frameIndex + 2 = Len(frames) /\ looped

\* the incremented index has reached the end of the array: the looped branch
WrapsAround == _frameIndex + 1 = Len(frames) /\ looped

\* the completion taken one position late
CompletesLate == _frameIndex + 1 = Len(frames) + 1 /\ ~looped

\* the incremented index has reached the end of the array: the branch that
\* calls onComplete()
Completes == _frameIndex + 1 = Len(frames) /\ ~looped

\* onComplete() that leaves isPlaying set
OnCompleteStillPlaying ==
    /\ isPlaying' = TRUE
    /\ isFinished' = TRUE
    /\ dispatched' = << "onAnimationComplete" >>
    /\ armed' = FALSE

\* onComplete()
OnComplete ==
    /\ isPlaying' = FALSE
    /\ isFinished' = TRUE
    /\ dispatched' = << "onAnimationComplete" >>
    /\ armed' = FALSE

\* the timestamp assignments skipped in the completion branch
StampTimesUnlessComplete ==
    IF Completes
    THEN UNCHANGED << _timeLastFrame, _timeNextFrame >>
    ELSE /\ _timeLastFrame' = now
         /\ _timeNextFrame' = now + delay

\* the two timestamp assignments that end every advance
StampTimes ==
    /\ _timeLastFrame' = now
    /\ _timeNextFrame' = now + delay

Update ==
    /\ call' = "update"
    /\ IF ~isPlaying
       THEN /\ outcome' = "false"
            /\ dispatched' = << >>
            /\ UNCHANGED << isPlaying, isFinished, _frameIndex, currentFrame,
                            _timeLastFrame, _timeNextFrame, startedAt,
                            advances,
                            lastStartOrAdvance, armed, overdue >>
       ELSE IF game = NULL
       THEN \* this.game.time throws a TypeError
            /\ outcome' = "threw"
            /\ dispatched' = << >>
            /\ UNCHANGED << isPlaying, isFinished, _frameIndex, currentFrame,
                            _timeLastFrame, _timeNextFrame, startedAt,
                            advances,
                            lastStartOrAdvance, armed, overdue >>
       ELSE IF ~Due
       THEN /\ outcome' = "false"
            /\ dispatched' = << >>
            /\ UNCHANGED << isPlaying, isFinished, _frameIndex, currentFrame,
                            _timeLastFrame, _timeNextFrame, startedAt,
                            advances,
                            lastStartOrAdvance, armed, overdue >>
       ELSE /\ IF WrapsAround
               THEN /\ _frameIndex' = 0
                    /\ currentFrame' = GetFrame(FrameAt(0))
                    /\ dispatched' = << "onAnimationLoop" >>
                    /\ UNCHANGED << isPlaying, isFinished, armed >>
               ELSE IF Completes
               THEN /\ _frameIndex' = Incremented
                    /\ OnComplete
                    /\ UNCHANGED currentFrame
               ELSE /\ _frameIndex' = Incremented
                    /\ currentFrame' = GetFrame(FrameAt(Incremented))
                    /\ dispatched' = << >>
                    /\ UNCHANGED << isPlaying, isFinished, armed >>
            /\ StampTimes
            /\ outcome' = "true"
            /\ startedAt' = Undefined
            /\ advances' = IF advances = Undefined THEN Undefined ELSE advances + 1
            /\ lastStartOrAdvance' = now
            /\ overdue' = now - _timeNextFrame
    /\ UNCHANGED << game, _parent, _frames, _frameData, frames, delay, looped,
                    now, textureWidth, textureHeight, ctorDelay, ctorLooped >>

\* ------------------------------------------------------------- frame setter
\* the setter that moves the cursor even when the key is unknown
SetFrameMovesCursorAnyway(value) ==
    /\ call' = "frame"
    /\ dispatched' = << >>
    /\ IF _frameData = NULL
       THEN \* this._frameData.getFrame throws a TypeError
            /\ outcome' = "threw"
            /\ UNCHANGED << currentFrame, textureWidth, textureHeight,
                            _frameIndex, startedAt, advances, lastStartOrAdvance, armed, overdue >>
       ELSE /\ currentFrame' = GetFrame(value)
            /\ outcome' = "void"
            /\ startedAt' = Undefined
            /\ advances' = Undefined
            /\ overdue' = 0
            /\ UNCHANGED << lastStartOrAdvance, armed >>
            /\ IF GetFrame(value) # NULL
               THEN /\ textureWidth' = GetFrame(value).width
                    /\ textureHeight' = GetFrame(value).height
                    /\ _frameIndex' = value
               ELSE /\ _frameIndex' = value
                    /\ UNCHANGED << textureWidth, textureHeight >>
    /\ UNCHANGED << game, _parent, _frames, _frameData, frames, delay, looped,
                    isFinished, isPlaying, _timeLastFrame, _timeNextFrame, now,
                    ctorDelay, ctorLooped >>

\* the setter that writes the width into both texture fields
SetFrameSquare(value) ==
    /\ call' = "frame"
    /\ dispatched' = << >>
    /\ IF _frameData = NULL
       THEN \* this._frameData.getFrame throws a TypeError
            /\ outcome' = "threw"
            /\ UNCHANGED << currentFrame, textureWidth, textureHeight,
                            _frameIndex, startedAt, advances, lastStartOrAdvance, armed, overdue >>
       ELSE /\ currentFrame' = GetFrame(value)
            /\ outcome' = "void"
            /\ startedAt' = Undefined
            /\ advances' = Undefined
            /\ overdue' = 0
            /\ UNCHANGED << lastStartOrAdvance, armed >>
            /\ IF GetFrame(value) # NULL
               THEN /\ textureWidth' = GetFrame(value).width
                    /\ textureHeight' = GetFrame(value).width
                    /\ _frameIndex' = value
               ELSE UNCHANGED << textureWidth, textureHeight, _frameIndex >>
    /\ UNCHANGED << game, _parent, _frames, _frameData, frames, delay, looped,
                    isFinished, isPlaying, _timeLastFrame, _timeNextFrame, now,
                    ctorDelay, ctorLooped >>

\* set frame(value)
SetFrame(value) ==
    /\ call' = "frame"
    /\ dispatched' = << >>
    /\ IF _frameData = NULL
       THEN \* this._frameData.getFrame throws a TypeError
            /\ outcome' = "threw"
            /\ UNCHANGED << currentFrame, textureWidth, textureHeight,
                            _frameIndex, startedAt, advances, lastStartOrAdvance, armed, overdue >>
       ELSE /\ currentFrame' = GetFrame(value)
            /\ outcome' = "void"
            /\ startedAt' = Undefined
            /\ advances' = Undefined
            /\ overdue' = 0
            /\ UNCHANGED << lastStartOrAdvance, armed >>
            /\ IF GetFrame(value) # NULL
               THEN /\ textureWidth' = GetFrame(value).width
                    /\ textureHeight' = GetFrame(value).height
                    /\ _frameIndex' = value
               ELSE UNCHANGED << textureWidth, textureHeight, _frameIndex >>
    /\ UNCHANGED << game, _parent, _frames, _frameData, frames, delay, looped,
                    isFinished, isPlaying, _timeLastFrame, _timeNextFrame, now,
                    ctorDelay, ctorLooped >>

\* ------------------------------------------------------------- destroy
Destroy ==
    /\ call' = "destroy"
    /\ game' = NULL
    /\ _parent' = NULL
    /\ _frames' = NULL
    /\ _frameData' = NULL
    /\ currentFrame' = NULL
    /\ isPlaying' = FALSE
    /\ outcome' = "void"
    /\ dispatched' = << >>
    /\ startedAt' = Undefined
    /\ advances' = Undefined
    /\ overdue' = 0
    /\ UNCHANGED << lastStartOrAdvance, armed >>
    /\ UNCHANGED << frames, delay, looped, isFinished, _frameIndex,
                    _timeLastFrame, _timeNextFrame, now, textureWidth,
                    textureHeight, ctorDelay, ctorLooped >>

\* ------------------------------------------------------------- the machine
PlayCall == \E frameRate \in FrameRateArgs, loop \in LoopArgs : Play(frameRate, loop)
SetFrameCall == \E value \in SeekValues : SetFrame(value)

Next ==
    \/ Tick
    \/ PlayCall
    \/ Restart
    \/ Stop
    \/ Update
    \/ SetFrameCall
    \/ Destroy

Spec == Init /\ [][Next]_vars

\* the instance has not been destroyed
Alive == game # NULL

\* any call on the instance (every step but the clock's)
AnyCall == PlayCall \/ Restart \/ Stop \/ Update \/ SetFrameCall \/ Destroy

\* ------------------------------------------------------------- C1
\* C1: before destroy the cursor stays inside the frame array,
\* 0 <= _frameIndex < frames.length, whatever calls were made.
C1_CursorInRange ==
    Alive => (0 <= _frameIndex /\ _frameIndex < Len(frames))

\* ------------------------------------------------------------- C2
\* C2: a non-looped animation of N frames that was started by play or restart
\* and has advanced exactly N times since, with no stop, seek or destroy in
\* between, is finished and not playing and still shows the frame of the last
\* array entry; the N-th advance dispatched onAnimationComplete, once, and
\* before it the animation is playing and no call of the run dispatched it.
C2_Completion ==
    (advances # Undefined /\ ~looped) =>
        /\ advances <= Len(frames)
        /\ (advances = Len(frames) =>
                /\ ~isPlaying
                /\ isFinished
                /\ (call = "update" /\ outcome = "true"
                        <=> dispatched = << "onAnimationComplete" >>)
                /\ currentFrame = GetFrame(frames[Len(frames)]))
        /\ (advances < Len(frames) =>
                /\ isPlaying
                /\ ~isFinished
                /\ dispatched # << "onAnimationComplete" >>)

C2_Witness ==
    /\ advances = Len(frames)
    /\ Len(frames) = 3
    /\ ~looped
    /\ call = "update"
    /\ dispatched = << "onAnimationComplete" >>
    /\ currentFrame # NULL

\* ------------------------------------------------------------- C3
\* C3: while looped is true, an advance counted from play or restart (no stop,
\* seek or destroy in between) dispatches onAnimationLoop, once, exactly when
\* it is an N-th advance, and then leaves the cursor at 0; no call dispatches
\* onAnimationComplete; and only stop or destroy ends the playing.
C3_LoopWraparound ==
    [][ /\ (Update /\ looped /\ outcome' = "true" /\ advances' # Undefined) =>
              IF advances' % Len(frames) = 0
              THEN dispatched' = << "onAnimationLoop" >> /\ _frameIndex' = 0
              ELSE dispatched' = << >>
        /\ (AnyCall /\ looped) => dispatched' # << "onAnimationComplete" >>
        /\ (isPlaying /\ looped /\ looped' /\ ~Stop /\ ~Destroy) => isPlaying'
      ]_vars

C3_Witness ==
    /\ looped
    /\ Len(frames) = 2
    /\ advances = 4
    /\ _frameIndex = 0
    /\ dispatched = << "onAnimationLoop" >>
    /\ isPlaying

\* ------------------------------------------------------------- C4
\* C4: after play() (or restart()) at clock time t0, with d the frame
\* interval, an update at a time before t0 + d returns false, changes no field
\* and dispatches nothing; the first update at or after t0 + d returns true
\* and, when the array has two frames or more, leaves the cursor at 1.
C4_AdvanceTiming ==
    [][ (Update /\ startedAt # Undefined) =>
            IF now < startedAt + delay
            THEN /\ outcome' = "false"
                 /\ dispatched' = << >>
                 /\ UNCHANGED fields
            ELSE /\ outcome' = "true"
                 /\ (Len(frames) >= 2 => _frameIndex' = 1)
      ]_vars

C4_Witness ==
    /\ call = "update"
    /\ outcome = "true"
    /\ advances = 1
    /\ _frameIndex = 1
    /\ delay = 2
    /\ _timeLastFrame = 3

\* ------------------------------------------------------------- C5
\* C5: isPlaying and isFinished are never both true.
C5_NotPlayingAndFinished == ~(isPlaying /\ isFinished)

C5_Witness ==
    /\ call = "update"
    /\ outcome = "true"
    /\ dispatched = << "onAnimationComplete" >>
    /\ isFinished
    /\ ~isPlaying

\* ------------------------------------------------------------- C6
\* C6: whenever isPlaying is true, _timeNextFrame = _timeLastFrame + delay.
C6_NextIsLastPlusDelay ==
    isPlaying => _timeNextFrame = _timeLastFrame + delay

\* ------------------------------------------------------------- C7
\* C7: after every call that sets the cursor (play, restart, an update that
\* advances, a frame setter that finds its key) currentFrame is the frame
\* table's entry for the array element at the new cursor.
C7_FrameFollowsCursor ==
    [][ ( \/ (PlayCall /\ outcome' = "self")
          \/ (Restart /\ outcome' = "void")
          \/ (Update /\ outcome' = "true")
          \/ (SetFrameCall /\ outcome' = "void" /\ currentFrame' # NULL) )
        => currentFrame' = GetFrame(FrameAt(_frameIndex'))
      ]_vars

\* ------------------------------------------------------------- C8
\* C8 as stated: the update that completes the animation leaves both
\* timestamps unchanged.
C8_CompletionKeepsTimes ==
    [][ (Update /\ dispatched' = << "onAnimationComplete" >>)
            => UNCHANGED << _timeLastFrame, _timeNextFrame >> ]_vars

\* C8 as amended: every update that advances, the completing one included,
\* sets _timeLastFrame to now and _timeNextFrame to now + delay.
C8_EveryAdvanceStampsTimes ==
    [][ (Update /\ outcome' = "true")
            => (_timeLastFrame' = now /\ _timeNextFrame' = now + delay) ]_vars

C8_Witness ==
    /\ call = "update"
    /\ dispatched = << "onAnimationComplete" >>
    /\ _timeLastFrame = now
    /\ _timeNextFrame = now + delay
    /\ now = 2

\* ------------------------------------------------------------- C9
\* C9: play() without a loop argument plays with the loop flag given at
\* construction, and play() without a rate argument with the delay given at
\* construction, whatever earlier play calls passed.
C9_PlayFallsBackToConstruction ==
    [][ /\ ((\E frameRate \in FrameRateArgs : Play(frameRate, NULL)) /\ Alive)
                => looped' = ctorLooped
        /\ ((\E loop \in LoopArgs : Play(NULL, loop)) /\ Alive)
                => delay' = ctorDelay
      ]_vars

\* ------------------------------------------------------------- C10
\* C10: before destroy, play() from any state leaves isPlaying true,
\* isFinished false, the cursor at 0, currentFrame resolved from the first
\* array entry, _timeLastFrame = now, _timeNextFrame = now + delay, and
\* dispatches onAnimationStart exactly once.
C10_PlayResets ==
    [][ (PlayCall /\ Alive) =>
            /\ isPlaying'
            /\ ~isFinished'
            /\ _frameIndex' = 0
            /\ currentFrame' = GetFrame(frames[1])
            /\ _timeLastFrame' = now
            /\ _timeNextFrame' = now + delay'
            /\ dispatched' = << "onAnimationStart" >>
            /\ outcome' = "self"
      ]_vars

C10_Witness ==
    /\ call = "play"
    /\ outcome = "self"
    /\ isPlaying
    /\ _frameIndex = 0
    /\ _timeLastFrame = MaxTime
    /\ textureWidth # InitialTextureSize
    /\ isFinished = FALSE

\* ------------------------------------------------------------- C11
\* the state play() and restart() both leave behind: playing, not finished,
\* the cursor on the first entry with its frame resolved, the timestamps
\* stamped from the clock
Rewound ==
    /\ isPlaying'
    /\ ~isFinished'
    /\ _frameIndex' = 0
    /\ currentFrame' = GetFrame(frames[1])
    /\ _timeLastFrame' = now
    /\ _timeNextFrame' = now + delay'

\* C11: before destroy, restart() leaves the flags, cursor, frame and
\* timestamps that play() without arguments leaves at the same clock time,
\* keeps delay and looped, and dispatches nothing.
C11_RestartLikePlay ==
    [][ /\ (Play(NULL, NULL) /\ Alive) => (Rewound /\ UNCHANGED << delay, looped >>)
        /\ (Restart /\ Alive) =>
              /\ Rewound
              /\ UNCHANGED << delay, looped >>
              /\ dispatched' = << >>
              /\ outcome' = "void"
      ]_vars

C11_Witness ==
    /\ call = "restart"
    /\ outcome = "void"
    /\ isPlaying
    /\ ~isFinished
    /\ _frameIndex = 0
    /\ _timeLastFrame = MaxTime
    /\ delay # ctorDelay
    /\ textureWidth # InitialTextureSize

\* ------------------------------------------------------------- C12
\* C12: the frame setter called with a key the frame table does not hold
\* leaves currentFrame null and leaves the cursor, the parent's texture size,
\* the flags and the timestamps as they were.
C12_SeekUnknownKey ==
    [][ \A value \in SeekValues :
          (SetFrame(value) /\ GetFrame(value) = NULL) =>
              /\ currentFrame' = NULL
              /\ UNCHANGED << _frameIndex, textureWidth, textureHeight,
                              isPlaying, isFinished, _timeLastFrame,
                              _timeNextFrame >>
      ]_vars

C12_Witness ==
    /\ call = "frame"
    /\ outcome = "void"
    /\ currentFrame = NULL
    /\ _frameIndex = 1
    /\ GetFrame(FrameAt(1)) # NULL
    /\ isPlaying
    /\ textureWidth = InitialTextureSize

\* ------------------------------------------------------------- C13
\* C13: the frame setter called with a key the instance's frame table holds
\* sets currentFrame to that key's frame, writes the frame's width and height
\* to the parent's texture, sets the cursor to the key, leaves the flags, the
\* timestamps, looped and delay as they were and dispatches nothing.
C13_SeekKnownKey ==
    [][ \A value \in SeekValues :
          (SetFrame(value) /\ _frameData # NULL /\ GetFrame(value) # NULL) =>
              /\ currentFrame' = GetFrame(value)
              /\ textureWidth' = GetFrame(value).width
              /\ textureHeight' = GetFrame(value).height
              /\ _frameIndex' = value
              /\ UNCHANGED << isPlaying, isFinished, _timeLastFrame,
                              _timeNextFrame, looped, delay >>
              /\ dispatched' = << >>
      ]_vars

C13_Witness ==
    /\ call = "frame"
    /\ outcome = "void"
    /\ currentFrame = GetFrame(1)
    /\ textureWidth = GetFrame(1).width
    /\ textureHeight = GetFrame(1).height
    /\ _frameIndex = 1
    /\ isPlaying
    /\ now < _timeNextFrame

\* ------------------------------------------------------------- C14
\* C14: however far the clock is past _timeNextFrame, an update that advances
\* moves the cursor by exactly one position (to 0 when it wraps), dispatches
\* at most one signal and sets _timeNextFrame to now + delay.
C14_NoCatchUp ==
    [][ (Update /\ outcome' = "true") =>
            /\ \/ _frameIndex' = _frameIndex + 1
               \/ /\ _frameIndex' = 0
                  /\ _frameIndex + 1 = Len(frames)
                  /\ dispatched' = << "onAnimationLoop" >>
            /\ Len(dispatched') <= 1
            /\ _timeNextFrame' = now + delay
      ]_vars

C14_Witness ==
    /\ call = "update"
    /\ outcome = "true"
    /\ delay = 1
    /\ overdue = 2
    /\ advances = 1
    /\ _frameIndex = 1
    /\ _timeNextFrame = now + 1

\* ------------------------------------------------------------- C15
\* C15: stop() leaves isPlaying false and isFinished true, keeps the cursor,
\* the frame and the timestamps and dispatches nothing; a stop() that follows
\* a stop() changes no field at all.
C15_StopIdempotent ==
    [][ /\ Stop =>
              /\ ~isPlaying'
              /\ isFinished'
              /\ dispatched' = << >>
              /\ UNCHANGED << _frameIndex, currentFrame, _timeLastFrame,
                              _timeNextFrame, delay, looped, textureWidth,
                              textureHeight >>
        /\ (Stop /\ call = "stop") => UNCHANGED fields
      ]_vars

C15_Witness ==
    /\ call = "stop"
    /\ Alive
    /\ ~isPlaying
    /\ isFinished
    /\ _frameIndex = 1
    /\ now < _timeNextFrame

\* ------------------------------------------------------------- C16
\* C16: stop() and the completing update leave isPlaying false; while
\* isPlaying is false every update returns false, changes no field and
\* dispatches nothing, wherever the clock stands; and only play() or restart()
\* set isPlaying again.
C16_StoppedStaysStopped ==
    [][ /\ (Stop \/ (Update /\ dispatched' = << "onAnimationComplete" >>))
              => ~isPlaying'
        /\ (Update /\ ~isPlaying) =>
              /\ outcome' = "false"
              /\ dispatched' = << >>
              /\ UNCHANGED fields
        /\ (~isPlaying /\ isPlaying') => (PlayCall \/ Restart)
      ]_vars

C16_Witness ==
    /\ call = "update"
    /\ outcome = "false"
    /\ Alive
    /\ ~isPlaying
    /\ isFinished
    /\ _frameIndex < Len(frames)
    /\ _timeNextFrame # Undefined
    /\ now >= _timeNextFrame + 2 * delay

\* ------------------------------------------------------------- C17
\* C17: destroy() clears isPlaying and releases the clock, the parent, the
\* frame array, the frame table and the current frame; every later play,
\* restart, stop, update or frame setter call is rejected: it fails and
\* changes nothing.
C17_DestroyTerminal ==
    [][ /\ Destroy =>
              /\ ~isPlaying'
              /\ game' = NULL
              /\ _parent' = NULL
              /\ _frames' = NULL
              /\ _frameData' = NULL
              /\ currentFrame' = NULL
        /\ (~Alive /\ (PlayCall \/ Restart \/ Stop \/ Update \/ SetFrameCall)) =>
              /\ outcome' = "threw"
              /\ UNCHANGED fields
      ]_vars

\* ------------------------------------------------- playback driven on
\* The driver's loop on an endless clock: one non-looped play() on the new
\* instance, then update() again and again while the clock keeps advancing,
\* with at most one frame assignment, made with a key of the frame table
\* before the first advance; no restart(), stop() or destroy().

\* the highest cursor value told apart: update() treats every cursor above
\* the sequence's length alike (no wraparound, no completion, no frame)
CursorCap == MaxLen + 2

\* a time read against a clock origin moved on by one
Rebased(t) == IF t = Undefined \/ t = 0 THEN t ELSE t - 1

\* the clock advances by one; at MaxTime the origin of time moves instead
ClockAdvances ==
    \/ Tick
    \/ /\ now = MaxTime
       /\ _timeLastFrame' = Rebased(_timeLastFrame)
       /\ _timeNextFrame' = Rebased(_timeNextFrame)
       /\ startedAt' = Rebased(startedAt)
       /\ lastStartOrAdvance' = Rebased(lastStartOrAdvance)
       /\ UNCHANGED << game, _parent, _frames, _frameData, frames, delay,
                       looped, isFinished, isPlaying, _frameIndex, currentFrame,
                       now, textureWidth, textureHeight, call, outcome,
                       dispatched, ctorDelay, ctorLooped, advances, armed,
                       overdue >>

\* update() advancing a cursor that stands at CursorCap: the normal branch,
\* with the incremented cursor recorded as CursorCap again
UpdateAtCap ==
    /\ isPlaying
    /\ Alive
    /\ Due
    /\ _frameIndex = CursorCap
    /\ call' = "update"
    /\ _frameIndex' = CursorCap
    /\ currentFrame' = GetFrame(FrameAt(Incremented))
    /\ dispatched' = << >>
    /\ StampTimes
    /\ outcome' = "true"
    /\ startedAt' = Undefined
    /\ advances' = IF advances = Undefined THEN Undefined ELSE advances + 1
    /\ lastStartOrAdvance' = now
    /\ overdue' = now - _timeNextFrame
    /\ UNCHANGED << game, _parent, _frames, _frameData, frames, delay, looped,
                    isPlaying, isFinished, armed, now, textureWidth,
                    textureHeight, ctorDelay, ctorLooped >>

\* the driver's call of update()
DrivenUpdate ==
    \/ /\ ~(isPlaying /\ Alive /\ Due /\ _frameIndex = CursorCap)
       /\ Update
    \/ UpdateAtCap

\* the one play() that starts the new instance, not looped
FirstPlay == call = "constructor" /\ PlayCall /\ ~looped'

\* a frame assignment during playback, before the first advance, with a key
\* of the frame table
SeekWhilePlaying ==
    /\ isPlaying
    /\ startedAt # Undefined
    /\ \E value \in FrameKeys : SetFrame(value)

LiveNext ==
    \/ FirstPlay
    \/ SeekWhilePlaying
    \/ DrivenUpdate
    \/ ClockAdvances

\* the driver calls update() on every tick and the clock never stops
LiveSpec ==
    /\ Init
    /\ [][LiveNext]_vars
    /\ WF_vars(DrivenUpdate)
    /\ WF_vars(ClockAdvances)

\* ------------------------------------------------------------- C18
\* C18: a playing, non-looped animation whose driver keeps calling update()
\* while the clock keeps advancing, with no play, restart, stop or destroy,
\* eventually has isPlaying false and isFinished true with
\* onAnimationComplete dispatched, even when the frame setter is called
\* finitely often with keys of the frame table during playback.
C18_SeekingStillCompletes ==
    (isPlaying /\ ~looped) ~>
        (~isPlaying /\ isFinished /\ dispatched = << "onAnimationComplete" >>)

\* ------------------------------------------------------------- C19
\* C19: an update() that returns true happens at least one frame interval
\* after the most recent play(), restart() or update() that returned true.
C19_AdvancesSpacedByDelay ==
    [][ (Update /\ outcome' = "true") =>
            /\ lastStartOrAdvance # Undefined
            /\ now - lastStartOrAdvance >= delay
      ]_vars

\* a second advance, one full interval after the first, which itself came
\* one full interval after play()
C19_Witness ==
    /\ call = "update"
    /\ outcome = "true"
    /\ Alive
    /\ advances = 2
    /\ delay = 2
    /\ lastStartOrAdvance = now
    /\ now = 2 * delay

\* ------------------------------------------------------------- C20
\* C20: the completed notification is emitted only by an update() that takes
\* isPlaying from true to false, once per such call, and only when a play()
\* or restart() has succeeded since the previous completed notification (so
\* completions never outnumber play() plus restart() calls, and two
\* completions always have a play() or restart() between them).
C20_CompletedOncePerStart ==
    [][ /\ (AnyCall /\ \E i \in 1 .. Len(dispatched') : dispatched'[i] = "onAnimationComplete") =>
              /\ Update
              /\ isPlaying
              /\ ~isPlaying'
              /\ armed
              /\ ~armed'
              /\ dispatched' = << "onAnimationComplete" >>
        /\ (~armed /\ armed') => (PlayCall \/ Restart)
      ]_vars

\* a three-frame sequence completed by an update() late in the run, after
\* three advances counted from the play() or restart() that armed it
C20_Witness ==
    /\ call = "update"
    /\ outcome = "true"
    /\ dispatched = << "onAnimationComplete" >>
    /\ Alive
    /\ ~isPlaying
    /\ ~armed
    /\ Len(frames) = 3
    /\ advances = 3
    /\ now = MaxTime

====
